---- MODULE Spec2Model ----
(***************************************************************************)
(* Model of the stopwatch widget of src/main.rs: the State struct          *)
(* (paused, start, sessions), the Toggle and Refresh messages, the view    *)
(* computation, the session log written by store_sessions, and the wall    *)
(* clock (SystemTime) the handlers read.                                   *)
(*                                                                         *)
(* Time is counted in clock ticks since the Unix epoch, Res ticks to the   *)
(* second, so that Duration::as_secs is a real truncation.  A text is a    *)
(* sequence of one-character strings.                                      *)
(***************************************************************************)
EXTENDS Integers, Sequences, FiniteSets, TLC

\* ---------------------------------------------------------------- bounds
Res == 2
MaxClock == 2
MaxSessions == 3
MaxPartialWrite == 4
MaxPartialPrint == 1

\* ------------------------------------------------------------- constants
UNIX_EPOCH == 0
SecondsPerHour == 3600
SecondsPerMinute == 60

\* 2^64 = WrapQuotient * 3600 + WrapRemainder, WrapQuotient written out in
\* decimal digits (it does not fit the integers of the model checker).
WrapRemainder == 16
WrapQuotientDigits ==
  <<"5","1","2","4","0","9","5","5","7","6","0","3","0","4","3","1">>

Clock == UNIX_EPOCH..MaxClock

\* The clock reading at which the process starts: the middle of the range.
BootClock == (UNIX_EPOCH + MaxClock + 1) \div 2

\* ------------------------------------------------------------ SystemTime
\* Result values: [ok |-> TRUE, val |-> v] or [ok |-> FALSE, val |-> 0].
Ok(v) == [ok |-> TRUE, val |-> v]
Err == [ok |-> FALSE, val |-> 0]

\* SystemTime::duration_since(earlier): Err when self is before earlier.
duration_since(self, earlier) ==
  IF self >= earlier THEN Ok(self - earlier) ELSE Err

\* Duration::as_secs: whole seconds, truncated.
as_secs(d) == d \div Res

\* ------------------------------------------------------------ formatting
Digit(n) == CASE n = 0 -> "0" [] n = 1 -> "1" [] n = 2 -> "2" [] n = 3 -> "3"
              [] n = 4 -> "4" [] n = 5 -> "5" [] n = 6 -> "6" [] n = 7 -> "7"
              [] n = 8 -> "8" [] n = 9 -> "9"

RECURSIVE Decimal(_)
\* "{}" of an unsigned integer.
Decimal(n) == IF n < 10 THEN <<Digit(n)>>
              ELSE Append(Decimal(n \div 10), Digit(n % 10))

\* "{:02}": zero-padded to a minimum width of two; wider numbers in full.
Pad2(digits) == IF Len(digits) < 2 THEN <<"0">> \o digits ELSE digits

\* The two format! calls of format_text, on the three fields already split.
format_fields(hours, nonzero, minutes, seconds, full) ==
  IF nonzero \/ full
    THEN Pad2(hours) \o <<":">> \o Pad2(Decimal(minutes)) \o <<":">>
           \o Pad2(Decimal(seconds))
    ELSE Pad2(Decimal(minutes)) \o <<":">> \o Pad2(Decimal(seconds))

\* format_text with the minutes taken from the total, not from the hour's rest.
format_text_total_minutes(seconds, full) ==
  LET hours == seconds \div SecondsPerHour
      minutes == seconds \div SecondsPerMinute
      secs == seconds % SecondsPerMinute
  IN format_fields(Decimal(hours), hours # 0, minutes, secs, full)

format_text(seconds, full) ==
  LET hours == seconds \div SecondsPerHour
      minutes == (seconds % SecondsPerHour) \div SecondsPerMinute
      secs == seconds % SecondsPerMinute
  IN format_fields(Decimal(hours), hours # 0, minutes, secs, full)

\* format_text of the u64 value 2^64 - k, for 0 < k <= WrapRemainder.
format_text_wrapped(k, full) ==
  LET rem == WrapRemainder - k
  IN format_fields(WrapQuotientDigits, TRUE, rem \div SecondsPerMinute,
                   rem % SecondsPerMinute, full)

\* ---------------------------------------------------------------- colours
Black == <<0, 0, 0>>
Red == <<255, 0, 0>>
Yellow == <<255, 255, 0>>
Green == <<0, 255, 0>>

\* highlight_col escalating at the threshold itself (>= for >).
highlight_col_at_threshold(seconds, lock) ==
  LET warn_settings == lock[1] IN
  IF warn_settings.danger_after = 0 /\ warn_settings.warn_after = 0
    THEN Ok(Black)
  ELSE IF seconds >= warn_settings.danger_after THEN Ok(Red)
  ELSE IF seconds >= warn_settings.warn_after THEN Ok(Yellow)
  ELSE Ok(Green)

\* WARN_SETTINGS is a OnceLock: <<>> while empty, <<settings>> once set.
\* highlight_col: [ok |-> FALSE] is the panic of get().unwrap().
highlight_col(seconds, lock) ==
  IF Len(lock) = 0 THEN Err
  ELSE LET warn_settings == lock[1] IN
    IF warn_settings.danger_after = 0 /\ warn_settings.warn_after = 0
      THEN Ok(Black)
    ELSE IF seconds > warn_settings.danger_after THEN Ok(Red)
    ELSE IF seconds > warn_settings.warn_after THEN Ok(Yellow)
    ELSE Ok(Green)

\* ------------------------------------------------------------------ state
VARIABLES
  paused,                 \* State.paused
  start,                  \* State.start, the anchor (a SystemTime, in ticks)
  sessions,               \* State.sessions
  now,                    \* the wall clock, SystemTime::now()
  config,                 \* the Config returned by load_config
  WARN_SETTINGS,          \* the OnceLock<WarnSettings>
  feature_store_sessions, \* built with --features store_sessions
  overflow_checks,        \* built with overflow checks (debug profile)
  log_file,               \* zarthus_counter.log: <<>> absent, <<bytes>> present
  stderr,                 \* the bytes each eprintln! got onto stderr
  store_calls,            \* the argument of every store_sessions call so far
  shown,                  \* the last Element built by view: <<>> or <<frame>>
  redraw_requested,       \* update has run and the runtime has yet to call view
  panicked                \* "none", or the function or macro that panicked

vars == <<paused, start, sessions, now, config, WARN_SETTINGS,
          feature_store_sessions, overflow_checks, log_file, stderr,
          store_calls, shown, redraw_requested, panicked>>

core == <<paused, start, sessions>>

\* Config::default().
Config_default ==
  [warn_after_minutes |-> 45, danger_after_minutes |-> 60,
   start_unpaused |-> FALSE, store_last_session |-> TRUE]

\* The configurations load_config may return: the default file, and a file
\* with every modelled field changed.
Configs ==
  { Config_default,
    [warn_after_minutes |-> 0, danger_after_minutes |-> 0,
     start_unpaused |-> TRUE, store_last_session |-> FALSE] }

\* The builds that differ in behaviour: the subtraction of store_sessions is
\* the only arithmetic that can overflow, and only the feature compiles it.
Builds ==
  { [store_sessions |-> FALSE, overflow_checks |-> FALSE],
    [store_sessions |-> TRUE, overflow_checks |-> FALSE],
    [store_sessions |-> TRUE, overflow_checks |-> TRUE] }

\* The WarnSettings taken in minutes, without the conversion to seconds.
WarnSettings_of_minutes(settings) ==
  [warn_after |-> settings.warn_after_minutes,
   danger_after |-> settings.danger_after_minutes]

\* The WarnSettings main builds from the configuration.
WarnSettings_of(settings) ==
  [warn_after |-> settings.warn_after_minutes * 60,
   danger_after |-> settings.danger_after_minutes * 60]

\* State::default(), with the clock reading it takes.
State_default(nowv) == [paused |-> TRUE, start |-> nowv, sessions |-> <<>>]

\* Session::new with the two timestamps exchanged.
Session_new_swapped(pause, anchor, nowv) ==
  Ok([pause |-> pause, start |-> as_secs(nowv - UNIX_EPOCH),
      end |-> as_secs(anchor - UNIX_EPOCH)])

\* Session::new recording the flag as it is after the flip.
Session_new_flag_after(pause, anchor, nowv) ==
  Ok([pause |-> ~pause, start |-> as_secs(anchor - UNIX_EPOCH),
      end |-> as_secs(nowv - UNIX_EPOCH)])

\* Session::new(pause, start), with the clock reading it takes for end.
Session_new(pause, anchor, nowv) ==
  LET s == duration_since(anchor, UNIX_EPOCH)
      e == duration_since(nowv, UNIX_EPOCH)
  IN IF ~s.ok \/ ~e.ok THEN Err
     ELSE Ok([pause |-> pause, start |-> as_secs(s.val),
              end |-> as_secs(e.val)])

\* ------------------------------------------------------------ persistence
\* sess.end - sess.start on u64: Err is the panic of a build with overflow
\* checks; otherwise the difference wraps to 2^64 - (start - end), kept as
\* [wrapped |-> TRUE, val |-> start - end].
duration_of(sess, checks) ==
  IF sess.end >= sess.start
    THEN Ok([wrapped |-> FALSE, val |-> sess.end - sess.start])
  ELSE IF checks THEN Err
  ELSE Ok([wrapped |-> TRUE, val |-> sess.start - sess.end])

\* One record of the log, "<HH:MM:SS> <active|pause>", byte by byte, for
\* the difference d (wrapped: the u64 difference is 2^64 - d).
record_of(pause, wrapped, d) ==
  (IF wrapped THEN format_text_wrapped(d, TRUE) ELSE format_text(d, TRUE))
    \o <<" ">>
    \o (IF pause THEN <<"p", "a", "u", "s", "e">>
        ELSE <<"a", "c", "t", "i", "v", "e">>)

\* The differences two readings of Clock can be apart.
ClockSeconds == 0..as_secs(MaxClock - UNIX_EPOCH)

\* The records for the differences in ClockSeconds, formatted once.
records ==
  [pause \in BOOLEAN, wrapped \in BOOLEAN, d \in ClockSeconds |->
     record_of(pause, wrapped, d)]

\* The record of one session: the format! call in the map closure.
session_line(sess, checks) ==
  LET d == duration_of(sess, checks).val IN
  IF d.val \in ClockSeconds
    THEN records[sess.pause, d.wrapped, d.val]
    ELSE record_of(sess.pause, d.wrapped, d.val)

\* The records i..j of the log joined by "\n".
RECURSIVE join_lines(_, _, _, _)
join_lines(sess, checks, i, j) ==
  IF i = j THEN session_line(sess[i], checks)
  ELSE LET mid == (i + j) \div 2 IN
       join_lines(sess, checks, i, mid) \o <<"\n">>
         \o join_lines(sess, checks, mid + 1, j)

\* sessdata, the text store_sessions builds: its bytes.
sessdata(sess, checks) ==
  IF sess = <<>> THEN <<>> ELSE join_lines(sess, checks, 1, Len(sess))

\* The capacity of the buffer BufWriter::new allocates.
BufWriterCapacity == 8192

\* The Display text of the io::Error a refused File::create returns, and of
\* the one a refused write returns.
CreateErrors ==
  { <<"N", "o", " ", "s", "u", "c", "h", " ", "f", "i", "l", "e", " ",
    "o", "r", " ", "d", "i", "r", "e", "c", "t", "o", "r", "y", " ",
    "(", "o", "s", " ", "e", "r", "r", "o", "r", " ", "2", ")">> }

WriteErrors ==
  { <<"N", "o", " ", "s", "p", "a", "c", "e", " ", "l", "e", "f", "t",
    " ", "o", "n", " ", "d", "e", "v", "i", "c", "e", " ", "(", "o",
    "s", " ", "e", "r", "r", "o", "r", " ", "2", "8", ")">> }

\* No io::Error: the call cannot return one.
NoError == <<>>

\* What the file system does with one call of store_sessions: whether
\* File::create succeeds, how many bytes the file accepts before a write
\* is refused, and the text of the io::Error a refusal returns.
IoOutcome(create, accepted, error) ==
  [create |-> create, accepted |-> accepted, error |-> error]

\* The file systems a toggle meets, for a text of n bytes: File::create
\* refused, the whole text accepted (accepted = n), or the writes refused
\* after at most MaxPartialWrite bytes.
IoOutcomes(n) ==
  { IoOutcome(FALSE, 0, e) : e \in CreateErrors }
    \cup { IoOutcome(TRUE, k, e) :
             k \in {n} \cup { j \in 0..MaxPartialWrite : j <= n },
             e \in IF n >= BufWriterCapacity THEN WriteErrors
                   ELSE {NoError} }

\* The texts of the two map_err closures, before the io::Error.
FailedToCreateFile ==
  <<"F", "a", "i", "l", "e", "d", " ", "t", "o", " ", "c", "r", "e", "a",
  "t", "e", " ", "f", "i", "l", "e", ":", " ">>

FailedToWriteToFile ==
  <<"F", "a", "i", "l", "e", "d", " ", "t", "o", " ", "w", "r", "i", "t",
  "e", " ", "t", "o", " ", "f", "i", "l", "e", ":", " ">>

\* write_all on the BufWriter, then its drop, for a file that accepts
\* `accepted` bytes.  A text shorter than the buffer is only copied into it
\* and write_all returns Ok; the flush in the drop writes what the file
\* accepts and discards the error.  A longer text is written through: the
\* file takes what it accepts and the error comes back.
write_all(text, accepted, error) ==
  IF Len(text) <= accepted
    THEN [result |-> "Ok", msg |-> <<>>, written |-> text]
  ELSE IF Len(text) >= BufWriterCapacity
    THEN [result |-> "Err", msg |-> FailedToWriteToFile \o error,
          written |-> SubSeq(text, 1, accepted)]
  ELSE [result |-> "Ok", msg |-> <<>>, written |-> SubSeq(text, 1, accepted)]

\* The first half of store_sessions: nothing in a build without the
\* feature, the panic of sess.end - sess.start, or the text sessdata.
sessdata_of(sess, feature, checks) ==
  IF ~feature THEN [kind |-> "none", text |-> <<>>]
  ELSE IF \E i \in 1..Len(sess) : ~duration_of(sess[i], checks).ok
    THEN [kind |-> "panic", text |-> <<>>]
  ELSE [kind |-> "text", text |-> sessdata(sess, checks)]

\* The second half of store_sessions: File::create and the write.  A failed
\* File::create leaves the file as it was; a created file is truncated.
write_sessdata(data, io, file) ==
  IF data.kind = "none" THEN [result |-> "Ok", msg |-> <<>>, file |-> file]
  ELSE IF data.kind = "panic"
    THEN [result |-> "Panic", msg |-> <<>>, file |-> file]
  ELSE IF ~io.create
    THEN [result |-> "Err", msg |-> FailedToCreateFile \o io.error,
          file |-> file]
  ELSE LET w == write_all(data.text, io.accepted, io.error) IN
       [result |-> w.result, msg |-> w.msg, file |-> <<w.written>>]

\* store_sessions(&sessions): the result, the failure text and the file
\* afterwards (<<>> absent, <<bytes>> present).
store_sessions(sess, feature, checks, io, file) ==
  { write_sessdata(sessdata_of(sess, feature, checks), io, file) }

\* ----------------------------------------------------------------- toggle
\* The anchor reset by every toggle.
anchor_after_always(self, now2) == now2

\* The anchor after a toggle: reset to the clock when leaving Paused.
anchor_after(self, now2) == IF self.paused THEN now2 ELSE self.start

\* The flag cleared instead of flipped.
paused_after_cleared(self) == FALSE

\* The flag after a toggle.
paused_after(self) == ~self.paused

\* State::toggle_pause up to the call of store_sessions.  now1 is the clock
\* read by Session::new, now2 the clock read for the new anchor.
toggle_pause(self, now1, now2) ==
  LET new == Session_new(self.paused, self.start, now1) IN
  IF ~new.ok THEN [self |-> self, panicked |-> "Session::new"]
  ELSE [self |-> [paused |-> paused_after(self),
                  start |-> anchor_after(self, now2),
                  sessions |-> Append(self.sessions, new.val)],
        panicked |-> "none"]

\* The text of the eprintln! in the Err arm of the match on the result of
\* store_sessions, before the failure.
FailedToStoreSessions ==
  <<"F", "a", "i", "l", "e", "d", " ", "t", "o", " ", "s", "t", "o", "r",
  "e", " ", "s", "e", "s", "s", "i", "o", "n", "s", ":", " ">>

\* The bytes eprintln! writes to stderr: the text, the failure and "\n".
store_line(stored) == FailedToStoreSessions \o stored.msg \o <<"\n">>

\* The number of bytes stderr may take before it refuses a write: the whole
\* line when it is writable, or at most MaxPartialPrint bytes when it is not
\* (a broken pipe, a disk filling up).
StderrOutcomes(stored) ==
  IF stored.result = "Err"
    THEN {Len(store_line(stored))}
           \cup { j \in 0..MaxPartialPrint : j <= Len(store_line(stored)) }
    ELSE {0}

\* The match on the result of store_sessions: what reaches stderr when it
\* takes `taken` bytes.
store_printed(stored, taken) ==
  IF stored.result = "Err" /\ taken > 0
    THEN IF taken >= Len(store_line(stored))
           THEN << store_line(stored) >>
           ELSE << SubSeq(store_line(stored), 1, taken) >>
    ELSE <<>>

\* The match on the result of store_sessions: whether the toggle completes.
\* store_sessions may panic itself; eprintln! panics when stderr refuses a
\* byte of the line.
store_panicked(stored, taken) ==
  IF stored.result = "Panic" THEN "store_sessions"
  ELSE IF stored.result = "Err" /\ taken < Len(store_line(stored))
    THEN "eprintln"
  ELSE "none"

\* The list handed to store_sessions, taken before the push.
stored_list_before_push(before, after) == before.sessions

\* The list toggle_pause hands to store_sessions: self.sessions, after the
\* push (before is the State the toggle started from, after the one it left).
stored_list(before, after) == after.sessions

\* State::update toggling on every message.
update_any_message(self, message, now1, now2) ==
  toggle_pause(self, now1, now2)

\* State::update on the fields of State.
update(self, message, now1, now2) ==
  IF message = "Toggle" THEN toggle_pause(self, now1, now2)
  ELSE [self |-> self, panicked |-> "none"]

\* ------------------------------------------------------------------- view
pause_count(sess) == Cardinality({ i \in 1..Len(sess) : sess[i].pause })

\* State::view: the frame built, or the function that panicked.
view(self, nowv, lock) ==
  IF self.paused
    THEN [panicked |-> "none",
          frame |-> <<[timer |-> <<"PAUSED">>, color |-> <<>>,
                       bottom |-> <<"breaks: ">>
                                    \o Decimal(pause_count(self.sessions))]>>]
  ELSE
    LET d == duration_since(nowv, self.start) IN
    IF ~d.ok THEN [panicked |-> "view", frame |-> <<>>]
    ELSE LET time_passed_seconds == as_secs(d.val)
             highlight_color == highlight_col(time_passed_seconds, lock)
         IN IF ~highlight_color.ok
              THEN [panicked |-> "highlight_col", frame |-> <<>>]
              ELSE [panicked |-> "none",
                    frame |-> <<[timer |-> format_text(time_passed_seconds,
                                                       FALSE),
                                 color |-> <<highlight_color.val>>,
                                 bottom |-> <<>>]>>]

\* State::subscription keeping the timer in both modes.
subscription_always(self) == {"Refresh"}

\* State::subscription: the Refresh timer exists only while running.
subscription(self) == IF self.paused THEN {} ELSE {"Refresh"}

\* ---------------------------------------------------------------- actions
Self == [paused |-> paused, start |-> start, sessions |-> sessions]

\* The state after main has loaded the configuration, built the State and
\* set WARN_SETTINGS, for every build and every configuration.
Init ==
  /\ now = BootClock
  /\ config \in Configs
  /\ \E b \in Builds : /\ feature_store_sessions = b.store_sessions
                       /\ overflow_checks = b.overflow_checks
  /\ paused = State_default(now).paused
  /\ start = State_default(now).start
  /\ sessions = State_default(now).sessions
  /\ WARN_SETTINGS = <<WarnSettings_of(config)>>
  /\ log_file = <<>>
  /\ stderr = <<>>
  /\ store_calls = <<>>
  /\ shown = <<>>
  /\ redraw_requested = TRUE
  /\ panicked = "none"

\* The process has not panicked.
Alive == panicked = "none"

\* The user presses the button: Message::Toggle.  The clock is read a
\* second time, and may have moved, only when the anchor is reset.  When
\* store_sessions returns Err the line goes to stderr, which may refuse it:
\* the toggle then panics with the State already changed.
Toggle(now2) ==
  /\ Alive
  /\ Len(sessions) < MaxSessions
  /\ now' = now2
  /\ ~paused => now2 = now
  /\ redraw_requested' = TRUE
  /\ UNCHANGED <<config, WARN_SETTINGS, feature_store_sessions,
                 overflow_checks, shown>>
  /\ \E r \in {update(Self, "Toggle", now, now2)} :
       /\ paused' = r.self.paused
       /\ start' = r.self.start
       /\ sessions' = r.self.sessions
       /\ IF r.panicked # "none"
            THEN /\ panicked' = r.panicked
                 /\ UNCHANGED <<log_file, stderr, store_calls>>
            ELSE /\ store_calls' = Append(store_calls,
                                           stored_list(Self, r.self))
                 /\ \E data \in {sessdata_of(stored_list(Self, r.self),
                                              feature_store_sessions,
                                              overflow_checks)} :
                    \E io \in IoOutcomes(Len(data.text)) :
                    \E st \in {write_sessdata(data, io, log_file)} :
                    \E taken \in StderrOutcomes(st) :
                      /\ log_file' = st.file
                      /\ stderr' = stderr \o store_printed(st, taken)
                      /\ panicked' = store_panicked(st, taken)

\* The 500 ms timer fires and the runtime hands Message::Refresh to update;
\* view is called later, by a step of its own.
Tick ==
  /\ Alive
  /\ "Refresh" \in subscription(Self)
  /\ redraw_requested' = TRUE
  /\ UNCHANGED <<now, config, WARN_SETTINGS, feature_store_sessions,
                 overflow_checks, log_file, stderr, store_calls, shown>>
  /\ \E r \in {update(Self, "Refresh", now, now)} :
       /\ paused' = r.self.paused
       /\ start' = r.self.start
       /\ sessions' = r.self.sessions
       /\ panicked' = r.panicked

\* The runtime calls view: after the updates of a batch of messages, or on
\* a window event.
Redraw ==
  /\ Alive
  /\ redraw_requested' = FALSE
  /\ UNCHANGED <<paused, start, sessions, now, config, WARN_SETTINGS,
                 feature_store_sessions, overflow_checks, log_file, stderr,
                 store_calls>>
  /\ \E v \in {view(Self, now, WARN_SETTINGS)} :
       /\ shown' = IF v.panicked = "none" THEN v.frame ELSE shown
       /\ panicked' = v.panicked

\* The wall clock moves: forward as time passes, or anywhere when it is set.
ClockStep(t) ==
  /\ Alive
  /\ t # now
  /\ now' = t
  /\ UNCHANGED <<paused, start, sessions, config, WARN_SETTINGS,
                 feature_store_sessions, overflow_checks, log_file, stderr,
                 store_calls, shown, redraw_requested, panicked>>

Next ==
  \/ \E now2 \in Clock \cup {now} : Toggle(now2)
  \/ Tick
  \/ Redraw
  \/ \E t \in Clock : ClockStep(t)

Spec == Init /\ [][Next]_vars

\* ------------------------------------------------- the display functions
\* A specification for format_text and highlight_col: the stopwatch was
\* started at the epoch, left Paused at once (one toggle) and has been
\* running for one of SampleSeconds, under one of DisplayConfigs.
SampleSeconds ==
  {0, 1, 5, 59, 60, 61, 125, 2699, 2700, 2701, 3000, 3599, 3600, 3601, 3725,
   359999, 360000, 363725}

ThresholdMinutes == {0, 1, 45, 60}

DisplayConfigs ==
  { [Config_default EXCEPT !.warn_after_minutes = w,
                           !.danger_after_minutes = d]
      : w \in ThresholdMinutes, d \in ThresholdMinutes }

DisplayInit ==
  /\ config \in DisplayConfigs
  /\ \E b \in Builds : /\ feature_store_sessions = b.store_sessions
                       /\ overflow_checks = b.overflow_checks
  /\ \E r \in {toggle_pause(State_default(UNIX_EPOCH), UNIX_EPOCH,
                            UNIX_EPOCH)} :
       /\ paused = r.self.paused
       /\ start = r.self.start
       /\ sessions = r.self.sessions
       /\ store_calls = <<r.self.sessions>>
       /\ \E st \in store_sessions(r.self.sessions, feature_store_sessions,
                                   overflow_checks,
                                   IoOutcome(TRUE, BufWriterCapacity, NoError),
                                   <<>>) :
            log_file = st.file
  /\ now \in { s * Res : s \in SampleSeconds }
  /\ WARN_SETTINGS = <<WarnSettings_of(config)>>
  /\ stderr = <<>>
  /\ shown = <<>>
  /\ redraw_requested = TRUE
  /\ panicked = "none"

DisplayNext ==
  \/ \E now2 \in Clock \cup {now} : Toggle(now2)
  \/ Tick
  \/ Redraw

SpecDisplay == DisplayInit /\ [][DisplayNext]_vars


\* ----------------------------------------------------------------- startup
\* main from its first statement: State::default() is built and the
\* configuration loaded, WARN_SETTINGS is still empty; the event loop
\* (run_with) starts only after WARN_SETTINGS.set.
StartupInit ==
  /\ now = BootClock
  /\ config \in Configs
  /\ \E b \in Builds : /\ feature_store_sessions = b.store_sessions
                       /\ overflow_checks = b.overflow_checks
  /\ paused = State_default(now).paused
  /\ start = State_default(now).start
  /\ sessions = State_default(now).sessions
  /\ WARN_SETTINGS = <<>>
  /\ log_file = <<>>
  /\ stderr = <<>>
  /\ store_calls = <<>>
  /\ shown = <<>>
  /\ redraw_requested = TRUE
  /\ panicked = "none"

\* WARN_SETTINGS.set(...) in main.
main_set ==
  /\ Alive
  /\ WARN_SETTINGS = <<>>
  /\ WARN_SETTINGS' = <<WarnSettings_of(config)>>
  /\ UNCHANGED <<paused, start, sessions, now, config,
                 feature_store_sessions, overflow_checks, log_file, stderr,
                 store_calls, shown, redraw_requested, panicked>>

\* The event loop, entered after main_set.
run_with == WARN_SETTINGS # <<>> /\ Next

StartupNext ==
  \/ main_set
  \/ run_with

SpecStartup == StartupInit /\ [][StartupNext]_vars

\* --------------------------------------------------------- monotonic clock
\* The program under a clock that never goes back, and that does not move
\* between the two readings one toggle takes.
MonoToggle == Toggle(now)

MonoClockStep == \E t \in Clock : t > now /\ ClockStep(t)

MonoNext ==
  \/ MonoToggle
  \/ Tick
  \/ Redraw
  \/ MonoClockStep

SpecMono == Init /\ [][MonoNext]_vars


\* ------------------------------------------------------------------ steps
ToggleStep == \E now2 \in Clock \cup {now} : Toggle(now2)
TickStep == Tick
RedrawStep == Redraw

\* The session a toggle closes, written from the state before the toggle.
ClosedSession ==
  [pause |-> paused, start |-> start \div Res, end |-> now \div Res]

\* ----------------------------------------------------------------- claims

\* C1: one toggle appends exactly one Session at the end of sessions, with
\* is_pause the paused flag before the toggle, start the anchor before the
\* toggle in whole seconds and end the clock at the toggle in whole seconds;
\* no step changes or moves a session already in the log.
C1_ToggleAppendsOneSession ==
  [][ /\ sessions' # Append(sessions, ClosedSession) => ~ToggleStep
      /\ Len(sessions') >= Len(sessions)
      /\ \A i \in 1..Len(sessions) : sessions'[i] = sessions[i] ]_vars

C1_Witness ==
  /\ Len(sessions) = 2
  /\ sessions[1].pause
  /\ sessions[2] = [pause |-> FALSE, start |-> 0, end |-> 1]

\* C2: a toggle from Paused sets the anchor to the clock reading it takes, a
\* toggle from Running leaves the anchor alone, nothing else moves the
\* anchor, and the display computed in Running shows the whole seconds from
\* the anchor to the clock.
C2_AnchorResetOnlyOnResume ==
  [][ /\ start' # (IF paused THEN now' ELSE start) => ~ToggleStep
      /\ start' # start => paused /\ ToggleStep
      /\ RedrawStep /\ ~paused /\ panicked' = "none" =>
           shown'[1].timer = format_text((now - start) \div Res, FALSE) ]_vars

C2_Witness ==
  /\ paused
  /\ Len(sessions) = 2
  /\ start # BootClock
  /\ start # now
  /\ panicked = "none"

\* C3: after every toggle the anchor is the time of that toggle (the open
\* interval began at the most recent toggle), from Running as from Paused.
C3_AnchorIsLastToggle ==
  [][ ToggleStep => start' \in {now, now'} ]_vars

\* C4: every logged session has end >= start.
C4_EndNotBeforeStart ==
  \A i \in 1..Len(sessions) : sessions[i].end >= sessions[i].start

\* C5: a display computation in Running with the clock before the anchor
\* does not panic and shows an elapsed time of 0.
C5_ViewClampsToZero ==
  [][ RedrawStep /\ ~paused /\ now < start =>
        /\ panicked' = "none"
        /\ Len(shown') = 1
        /\ shown'[1].timer = <<"0", "0", ":", "0", "0">> ]_vars

\* C6: no toggle and no tick panics, for any clock reading at or after the
\* epoch.
C6_NoPanic == panicked = "none"

\* C7: a toggle whose persistence call returns a failure still completes: it
\* appends the session, flips paused and applies the anchor update, does not
\* panic, and the failure is only logged, as one line on stderr; a toggle
\* after a failure updates the state as any toggle does.
C7_FailureDoesNotRollBack ==
  [][ /\ ToggleStep
      /\ \/ stderr' # stderr
         \/ panicked' = "eprintln"
         \/ stderr # <<>>
      => /\ sessions' = Append(sessions, ClosedSession)
         /\ paused' = ~paused
         /\ start' = (IF paused THEN now' ELSE start)
         /\ stderr' # stderr \/ panicked' = "eprintln" =>
              /\ panicked' = "none"
              /\ Len(stderr') = Len(stderr) + 1
              /\ SubSeq(stderr', 1, Len(stderr)) = stderr
              /\ LET line == stderr'[Len(stderr')]
                 IN line[Len(line)] = "\n" ]_vars

\* C8: before the first toggle, sessions is empty and paused is the negation
\* of the configured start_unpaused.
C8_InitialModeFromConfig ==
  sessions = <<>> => paused = ~config.start_unpaused

\* C9: every toggle flips paused, so the modes alternate, and in every state
\* of the running process (one that has not exited by a panic), Paused or
\* Running, a toggle is enabled, up to the bound on the log's length.
C9_ToggleFlipsAndIsEnabled ==
  /\ [][paused' # ~paused => ~ToggleStep]_vars
  /\ [](Alive /\ Len(sessions) < MaxSessions => ENABLED ToggleStep)

C9_Witness ==
  /\ Len(sessions) = 3
  /\ sessions[1].pause /\ ~sessions[2].pause /\ sessions[3].pause
  /\ ~paused

\* C10: a tick, the Refresh message as the display computation after it,
\* leaves paused, anchor and sessions unchanged, and only a toggle changes
\* any of them.
C10_TickIsPureRead ==
  [][ /\ TickStep \/ RedrawStep => UNCHANGED core
      /\ core' # core => ToggleStep ]_vars

C10_Witness ==
  /\ ~paused
  /\ Len(sessions) = 1
  /\ Len(shown) = 1
  /\ shown[1].timer = <<"0", "0", ":", "0", "1">>
  /\ redraw_requested
  /\ store_calls = <<sessions>>

\* C11 (as stated): after toggle, toggle, toggle from the Paused initial
\* state with an empty log, exactly one session is a pause.
C11_ThreeTogglesOnePause ==
  Len(sessions) = 3 => pause_count(sessions) = 1

\* C11 (amended): after toggle, toggle, toggle from the Paused initial state
\* with an empty log, the pause count is 2: the first and the third closed
\* interval are pauses.
C11_ThreeTogglesTwoPauses ==
  Len(sessions) = 3 =>
    /\ pause_count(sessions) = 2
    /\ sessions[1].pause /\ ~sessions[2].pause /\ sessions[3].pause

C11_Witness ==
  /\ Len(sessions) = 3
  /\ Len(store_calls) = 3
  /\ ~paused
  /\ panicked = "none"

\* C12 (as stated): two toggles from Paused leave the machine in Running
\* mode, and append exactly two sessions.
C12_TwoTogglesRunning ==
  Len(store_calls) = 2 => ~paused /\ Len(sessions) = 2

\* C12 (amended): two toggles from Paused leave the machine in Paused mode
\* with the anchor the first of them set (the start logged for the run the
\* second closed), and append exactly two sessions, a pause and then a run.
C12_TwoTogglesBackToPaused ==
  Len(store_calls) = 2 =>
    /\ paused
    /\ Len(sessions) = 2
    /\ sessions[1].pause /\ ~sessions[2].pause
    /\ start \div Res = sessions[2].start

C12_Witness ==
  /\ Len(store_calls) = 2
  /\ paused
  /\ sessions[2].end # sessions[2].start
  /\ now # start
  /\ panicked = "none"

\* The colour the claim gives, case by case.
ClaimedColorHolds(c, s, w, d) ==
  IF w = 0 /\ d = 0 THEN c = Black
  ELSE /\ s <= w => c = Green
       /\ w < s /\ s <= d => c = Yellow
       /\ s > d => c = Red

\* The colour as amended: the claim's cases when warn_after <= danger_after;
\* with warn_after > danger_after red above danger_after, green otherwise.
AmendedColor(s, w, d) ==
  IF w = 0 /\ d = 0 THEN Black
  ELSE IF w <= d
    THEN (IF s <= w THEN Green ELSE IF s <= d THEN Yellow ELSE Red)
    ELSE (IF s > d THEN Red ELSE Green)

\* A display computation in Running that built a frame.
Displayed == RedrawStep /\ ~paused /\ panicked' = "none"

\* C13 (as stated): whatever the thresholds, the colour shown is black when
\* both are 0, else green up to warn_after, yellow above it up to
\* danger_after, red above danger_after.
C13_ColorByThresholds ==
  [][ Displayed =>
        ClaimedColorHolds(shown'[1].color[1], (now - start) \div Res,
                          config.warn_after_minutes * 60,
                          config.danger_after_minutes * 60) ]_vars

\* C13 (amended): the colour shown is black when both thresholds are 0;
\* else, with warn_after <= danger_after, green up to warn_after, yellow
\* above it up to danger_after and red above danger_after (a value equal to
\* a threshold is not escalated); with warn_after > danger_after, red above
\* danger_after and green otherwise.
C13_ColorByOrderedThresholds ==
  [][ Displayed =>
        shown'[1].color = << AmendedColor((now - start) \div Res,
                                          config.warn_after_minutes * 60,
                                          config.danger_after_minutes * 60) >>
    ]_vars

C13_Witness ==
  /\ Len(shown) = 1
  /\ shown[1].color = <<Yellow>>
  /\ now - start = 3600 * Res
  /\ WARN_SETTINGS = <<[warn_after |-> 2700, danger_after |-> 3600]>>

\* Two decimal digits, for a number below 100.
TwoDigits(n) == <<Digit(n \div 10), Digit(n % 10)>>

\* MM:SS or HH:MM:SS as the claim gives it, the hours in full from 100 on.
AmendedFormat(s, force_hours) ==
  LET hh == s \div 3600
      mm == (s % 3600) \div 60
      ss == s % 60
      tail == TwoDigits(mm) \o <<":">> \o TwoDigits(ss)
  IN IF s < 3600 /\ ~force_hours THEN tail
     ELSE (IF hh < 100 THEN TwoDigits(hh) ELSE Decimal(hh)) \o <<":">> \o tail

\* The positions of the line ends in the bytes of a file.
Newlines(bytes) == { i \in 1..Len(bytes) : bytes[i] = "\n" }

\* The bytes after the last line end.
LastRecord(bytes) ==
  LET from == IF Newlines(bytes) = {} THEN 1
              ELSE 1 + CHOOSE i \in Newlines(bytes) :
                         \A j \in Newlines(bytes) : j <= i
  IN SubSeq(bytes, from, Len(bytes))

\* The label of a record, after its blank.
RecordLabel(sess) ==
  IF sess.pause THEN <<" ", "p", "a", "u", "s", "e">>
  ELSE <<" ", "a", "c", "t", "i", "v", "e">>

EndsWith(bytes, suffix) ==
  /\ Len(bytes) >= Len(suffix)
  /\ SubSeq(bytes, Len(bytes) - Len(suffix) + 1, Len(bytes)) = suffix

\* The duration of the last record of a file, the record without its label.
WrittenDuration(file, sess) ==
  SubSeq(LastRecord(file[1]), 1,
         Len(LastRecord(file[1])) - Len(RecordLabel(sess)))

\* A step (a toggle: nothing else writes) that wrote the whole log, one
\* record per session and the last one up to its label, closing an interval
\* that does not run backwards.
Wrote ==
  /\ log_file' # log_file
  /\ feature_store_sessions
  /\ panicked' = "none"
  /\ Len(log_file') = 1
  /\ Cardinality(Newlines(log_file'[1])) = Len(sessions') - 1
  /\ EndsWith(log_file'[1], RecordLabel(sessions'[Len(sessions')]))
  /\ sessions'[Len(sessions')].end >= sessions'[Len(sessions')].start

\* C14 (as stated): the text is MM:SS below one hour without force_hours and
\* HH:MM:SS otherwise, every field exactly two digits.
C14_FieldsExactlyTwoDigits ==
  [][ /\ Displayed =>
           /\ shown'[1].timer = AmendedFormat((now - start) \div Res, FALSE)
           /\ Len(shown'[1].timer)
                = (IF (now - start) \div Res < 3600 THEN 5 ELSE 8)
      /\ Wrote =>
           Len(WrittenDuration(log_file', sessions'[Len(sessions')])) = 8
    ]_vars

\* C14 (amended): the text shown by view is format_elapsed(elapsed, false)
\* and the duration written by store_sessions is format_elapsed(end - start,
\* true): MM:SS below one hour without force_hours, HH:MM:SS otherwise, MM
\* and SS exactly two digits, HH two digits below 100 hours and in full
\* above.
C14_FieldsAtLeastTwoDigits ==
  [][ /\ Displayed =>
           shown'[1].timer = AmendedFormat((now - start) \div Res, FALSE)
      /\ Wrote =>
           WrittenDuration(log_file', sessions'[Len(sessions')])
             = AmendedFormat(sessions'[Len(sessions')].end
                               - sessions'[Len(sessions')].start, TRUE) ]_vars

C14_Witness ==
  /\ Len(shown) = 1
  /\ shown[1].timer = <<"1", "0", "0", ":", "0", "0", ":", "0", "0">>
  /\ Len(log_file) = 1
  /\ log_file[1]
       = <<"0", "0", ":", "0", "0", ":", "0", "0", " ",
           "p", "a", "u", "s", "e", "\n",
           "1", "0", "0", ":", "0", "0", ":", "0", "0", " ",
           "a", "c", "t", "i", "v", "e">>

\* C15: the session log is written by a toggle if and only if the
\* configuration flag store_last_session is set: never without it, and with
\* it every toggle opens the log file (unless it reports that it could not).
C15_PersistenceFollowsConfigFlag ==
  /\ ~config.store_last_session => log_file = <<>>
  /\ config.store_last_session /\ Alive /\ stderr = <<>> /\ sessions # <<>>
       => Len(log_file) = 1

\* C16: WARN_SETTINGS is set once, to the configured minutes times 60, and
\* never changes afterwards; every frame is built after it was set, and no
\* display computation finds it empty.
C16_WarnSettingsSetOnce ==
  /\ [](WARN_SETTINGS # <<>> =>
          WARN_SETTINGS = <<[warn_after |-> config.warn_after_minutes * 60,
                             danger_after |->
                               config.danger_after_minutes * 60]>>)
  /\ [](shown # <<>> => WARN_SETTINGS # <<>>)
  /\ [](panicked # "highlight_col")
  /\ [][WARN_SETTINGS # <<>> => WARN_SETTINGS' = WARN_SETTINGS]_vars

C16_Witness ==
  /\ WARN_SETTINGS = <<[warn_after |-> 2700, danger_after |-> 3600]>>
  /\ Len(shown) = 1
  /\ shown[1].color = <<Green>>
  /\ Len(sessions) = 3

\* C17: every toggle that closes its session calls store_sessions exactly
\* once, after the push, with the whole list in insertion order, the session
\* it has just closed last; nothing but a toggle calls it or touches the log.
C17_PersistOncePerToggle ==
  [][ /\ ~ /\ Len(sessions') = Len(sessions) + 1
             /\ SubSeq(sessions', 1, Len(sessions)) = sessions
             /\ store_calls' = Append(store_calls, sessions')
           => ~(ToggleStep /\ panicked' # "Session::new")
      /\ store_calls' # store_calls \/ log_file' # log_file
           \/ stderr' # stderr => ToggleStep ]_vars

C17_Witness ==
  /\ Len(store_calls) = 2
  /\ store_calls[1] = SubSeq(sessions, 1, 1)
  /\ store_calls[2] = sessions
  /\ Len(shown) = 1
  /\ shown[1].color # <<>>

\* C18 (as stated): the periodic tick is delivered in both modes, while
\* Running and while Paused.
C18_TickInBothModes == Alive => ENABLED Tick

\* C18 (amended): the periodic tick is delivered while Running and only
\* then: while Paused no timer is subscribed; whether it is follows the
\* paused flag after each toggle.
C18_TickOnlyWhileRunning == (ENABLED Tick) <=> (Alive /\ ~paused)

C18_Witness ==
  /\ paused
  /\ Alive
  /\ Len(sessions) = 2
  /\ Len(shown) = 1
  /\ shown[1].color # <<>>

\* C19: consecutive sessions have different pause flags, the first session
\* is a pause (the process starts Paused), the paused flag is the negation of
\* the last session's flag, and the pause count is the number of toggles
\* halved, rounded up.
C19_LogAlternates ==
  /\ \A i \in 2..Len(sessions) : sessions[i].pause # sessions[i - 1].pause
  /\ sessions # <<>> =>
       /\ sessions[1].pause = State_default(BootClock).paused
       /\ paused = ~sessions[Len(sessions)].pause
  /\ sessions = <<>> => paused = State_default(BootClock).paused
  /\ pause_count(sessions) = (Len(sessions) + 1) \div 2

C19_Witness ==
  /\ Len(sessions) = 3
  /\ sessions[3].pause
  /\ ~paused
  /\ Len(shown) = 1
  /\ shown[1].timer = <<"PAUSED">>

\* C20: under a monotonic clock the first session starts at the
\* process-start anchor and every later session starts where the previous
\* one ended.
C20_LogContiguous ==
  /\ sessions # <<>> => sessions[1].start = BootClock \div Res
  /\ \A i \in 2..Len(sessions) : sessions[i].start = sessions[i - 1].end

====
